---- MODULE Spec2Model ----
(***************************************************************************)
(* A model of the virtual-time (Time Warp) machine of this repository:     *)
(*   src/src/time/message.rs       Message, Sign, PartialEq for Message    *)
(*   src/src/time/input_queue.rs   InputQueue  (BTreeMap ordered by        *)
(*                                 rec_time, with a threshold)             *)
(*   src/src/time/output_queue.rs  OutputQueue (BTreeSet ordered by        *)
(*                                 send_time)                              *)
(*   src/src/machine.rs            Machine (recieve_outer, recieve_inner,  *)
(*                                 send_outer, send_inner)                 *)
(*                                                                         *)
(* A BTreeMap / BTreeSet finds, inserts and removes its keys with Ord::cmp *)
(* alone (it never calls PartialEq).  Two keys that compare Equal are one  *)
(* key to the tree.  The collections are therefore modelled as sets that   *)
(* hold at most one element for each value of the field the Ord impl       *)
(* compares.                                                               *)
(***************************************************************************)
EXTENDS Integers, Sequences, FiniteSets, TLC

\* ------------------------------------------------------------------ bounds
\* Largest receive / send time of a message handed to the machine.
MaxTime == 3
\* Number of distinct payload allocations (Arc identities) the harness owns.
MaxPayload == 2
\* Number of Arc::new payload allocations send_inner may perform.
MaxInner == 2

\* --------------------------------------------------------- program constants
\* Machine::new(1, 0): the machine id the harness uses.
MachineId == 1
\* make_message: rec_time = local_virtual_time + 5.
SendDelay == 5
\* recieve_inner: state.local_var2 += 5.
HandlerStep == 5

VARIABLES
    \* ---- struct Machine
    local_virtual_time,   \* Machine.local_virtual_time
    state,                \* Machine.state : MachineState
    map,                  \* Machine.input_queue.map   (its key set)
    threshold,            \* Machine.input_queue.threshold
    set,                  \* Machine.output_queue.set
    state_queue,          \* Machine.state_queue
    arcs,                 \* number of payloads send_inner has allocated
    panicked,             \* the thread running the machine has panicked
    \* ---- history variables (observations of the run, never read by the code)
    last,                 \* the last call: its name, argument, path, result
    pre,                  \* the machine as it stood when that call began
    handled,              \* message -> handler invocations since the last
                          \*   rollback whose target was <= its rec_time
    last_handled,         \* the last message the handler was invoked for
    straggler_seen,       \* some recieve_outer took the rollback path
    live,                 \* messages emitted through send_outer, toggled by
                          \*   five-field identity (emitted and not cancelled)
    delivered,            \* messages handed to recieve_outer (arrival runs)
    odd                   \* five-field identities inserted an odd number of
                          \*   times (queue runs)

vars == <<local_virtual_time, state, map, threshold, set, state_queue, arcs,
          panicked, last, pre, handled, last_handled, straggler_seen, live,
          delivered, odd>>

\* ---------------------------------------------------------------- messages
Sign == {"Message", "Antimessage"}

\* Message::new(send_time, rec_time, sender, receiver, sign, message).
\* The payload Arc is modelled by the identity of its allocation.
Message(send_time, rec_time, sender, receiver, sign, message) ==
    [send_time |-> send_time, rec_time |-> rec_time, sender |-> sender,
     receiver |-> receiver, sign |-> sign, message |-> message]

\* impl PartialEq for Message: all fields but the sign, payload by Arc::ptr_eq.
MessageEq(a, b) ==
    /\ a.send_time = b.send_time
    /\ a.rec_time = b.rec_time
    /\ a.sender = b.sender
    /\ a.receiver = b.receiver
    /\ a.message = b.message

\* "no message": the None of an Option<Message>.
NoMessage == [none |-> TRUE]

\* MachineState::new() = Default: local_var1 = "", local_var2 = 0.
MachineState_new == [local_var1 |-> "", local_var2 |-> 0]

\* StampedMachineState { machine_state, virtual_time_stamp }.
StampedMachineState(s, t) == [machine_state |-> s, virtual_time_stamp |-> t]


\* ------------------------------------------------------------- input queue
\* impl Ord for WrappedMessage: cmp compares rec_time and nothing else.
WrappedMessage_cmp(a, b) ==
    IF a.rec_time < b.rec_time THEN "Less"
    ELSE IF a.rec_time > b.rec_time THEN "Greater" ELSE "Equal"

\* BTreeMap::contains_key: some key of the map compares Equal to k.
contains_key(q, k) == \E x \in q : WrappedMessage_cmp(x, k) = "Equal"

\* InputQueue::insert: if the map contains a key that compares Equal, remove
\* that key (and store nothing), otherwise insert the message.
insert(q, message) ==
    IF contains_key(q, message)
    THEN {x \in q : WrappedMessage_cmp(x, message) # "Equal"}
    ELSE q \cup {message}

\* A variant of peek_smallest_greater that takes the last key of the range
\* (next_back instead of next).
peek_largest_greater(q, th) ==
    LET above == {x \in q : x.rec_time > th}
    IN IF above = {} THEN NoMessage
       ELSE CHOOSE x \in above : \A y \in above : x.rec_time >= y.rec_time

\* A variant of peek_smallest_greater whose lower bound is Included.
peek_smallest_at_or_above(q, th) ==
    LET above == {x \in q : x.rec_time >= th}
    IN IF above = {} THEN NoMessage
       ELSE CHOOSE x \in above : \A y \in above : x.rec_time <= y.rec_time

\* InputQueue::peek_smallest_greater: the first key of
\* map.range((Excluded(rec_time = threshold), Unbounded)), or None.
peek_smallest_greater(q, th) ==
    LET above == {x \in q : x.rec_time > th}
    IN IF above = {} THEN NoMessage
       ELSE CHOOSE x \in above : \A y \in above : x.rec_time <= y.rec_time

\* A variant of remove_smallest that takes the last key of the map
\* (next_back instead of next).
remove_largest_ret(q) ==
    IF q = {} THEN NoMessage
    ELSE CHOOSE x \in q : \A y \in q : x.rec_time >= y.rec_time

\* InputQueue::remove_smallest: the first key of the map is removed and
\* returned; None (and no change) on an empty map.
remove_smallest_ret(q) ==
    IF q = {} THEN NoMessage
    ELSE CHOOSE x \in q : \A y \in q : x.rec_time <= y.rec_time

remove_smallest_map(q) ==
    IF q = {} THEN q ELSE q \ {remove_smallest_ret(q)}

\* ------------------------------------------------------------ output queue
\* impl Ord for MessageBySendTime: cmp compares send_time and nothing else.
MessageBySendTime_cmp(a, b) ==
    IF a.send_time < b.send_time THEN "Less"
    ELSE IF a.send_time > b.send_time THEN "Greater" ELSE "Equal"

\* BTreeSet::contains: some element compares Equal to k.
contains(s, k) == \E x \in s : MessageBySendTime_cmp(x, k) = "Equal"

\* OutputQueue::push: remove the element that compares Equal if there is
\* one, otherwise insert the message.
push(s, message) ==
    IF contains(s, message)
    THEN {x \in s : MessageBySendTime_cmp(x, message) # "Equal"}
    ELSE s \cup {message}

\* Iteration order of the BTreeSet: ascending send_time.
RECURSIVE BySendTime(_)
BySendTime(s) ==
    IF s = {} THEN <<>>
    ELSE LET first == CHOOSE x \in s : \A y \in s : x.send_time <= y.send_time
         IN <<first>> \o BySendTime(s \ {first})

\* A variant of range that leaves the upper end out (start..end).
range_excluding_end(s, start, end) ==
    BySendTime({x \in s : start <= x.send_time /\ x.send_time < end})

\* OutputQueue::range(start, end): set.range(&start..=&end), cloned into a
\* Vec in iteration order.
range(s, start, end) ==
    BySendTime({x \in s : start <= x.send_time /\ x.send_time <= end})

\* BTreeSet::range(&start..=&end) panics when start > end ("range start is
\* greater than range end"): the calls of OutputQueue::range that panic.
range_panics(start, end) == start > end

\* A variant of pop that takes the last element of the set (next_back
\* instead of next).
pop_largest_ret(s) ==
    IF s = {} THEN NoMessage
    ELSE CHOOSE x \in s : \A y \in s : x.send_time >= y.send_time

\* OutputQueue::pop: the first element is removed and returned, or None.
pop_ret(s) ==
    IF s = {} THEN NoMessage
    ELSE CHOOSE x \in s : \A y \in s : x.send_time <= y.send_time

pop_set(s) == IF s = {} THEN s ELSE s \ {pop_ret(s)}

\* ------------------------------------------------------------ state history
\* impl Ord for StampedMachineState: other.stamp.cmp(self.stamp).reverse(),
\* that is ascending virtual_time_stamp; the snapshot is not compared.
StampedMachineState_cmp(a, b) ==
    IF a.virtual_time_stamp < b.virtual_time_stamp THEN "Less"
    ELSE IF a.virtual_time_stamp > b.virtual_time_stamp THEN "Greater"
    ELSE "Equal"

\* BTreeSet::insert: an element that compares Equal to one already in the
\* set is not stored and the old element is kept.
state_queue_insert(sq, e) ==
    IF \E x \in sq : StampedMachineState_cmp(x, e) = "Equal" THEN sq
    ELSE sq \cup {e}

\* recieve_outer step 1: state_queue.range((Included(stamp 0),
\* Excluded(stamp rollback_target))): the elements the iterator runs over.
states_before(sq, rollback_target) ==
    {x \in sq : 0 <= x.virtual_time_stamp
                /\ x.virtual_time_stamp < rollback_target}

\* recieve_outer step 1: .next() of that iterator, the first element in
\* ascending order of virtual_time_stamp.
most_recent_state(sq, rollback_target) ==
    LET found == states_before(sq, rollback_target)
    IN CHOOSE x \in found :
         \A y \in found : x.virtual_time_stamp <= y.virtual_time_stamp

\* A variant of step 2 whose range starts at stamp 0 (everything up to
\* local_virtual_time is discarded).
states_to_delete_up_to_clock(sq, rollback_target, lvt) ==
    {x \in sq : 0 <= x.virtual_time_stamp /\ x.virtual_time_stamp <= lvt}

\* A variant of step 2 whose range leaves the rollback target out
\* (Excluded(target) ..= local_virtual_time).
states_to_delete_above_target(sq, rollback_target, lvt) ==
    {x \in sq : rollback_target < x.virtual_time_stamp
                /\ x.virtual_time_stamp <= lvt}

\* recieve_outer step 2: state_queue.range(target ..= local_virtual_time).
states_to_delete(sq, rollback_target, lvt) ==
    {x \in sq : rollback_target <= x.virtual_time_stamp
                /\ x.virtual_time_stamp <= lvt}


\* ------------------------------------------------------------------ inputs
Times == 0..MaxTime
Payloads == 1..MaxPayload

\* Messages the harness hands to recieve_outer, built as main.rs builds them:
\* Message::new(0, rec_time, 0, 1, sign, Arc), each Arc its own allocation.
RecvMsgs ==
    {Message(0, t, 0, MachineId, sg, p) : t \in Times, sg \in Sign, p \in Payloads}

\* The same, restricted to one payload allocation per receive time.
RecvOne == {m \in RecvMsgs : m.message = 1}

\* The same, restricted to positive messages.
RecvPos == {m \in RecvOne : m.sign = "Message"}

\* Messages handed to send_outer and OutputQueue::push, built as make_message
\* builds them (due SendDelay after send_time, from this machine to machine
\* 0), the send_time chosen by the caller as in main.rs.
SendMsgs ==
    {Message(t, t + SendDelay, MachineId, 0, sg, p) :
       t \in Times, sg \in Sign, p \in Payloads}

\* ----------------------------------------------------------------- history
\* The machine as a call finds it.
Snapshot ==
    [local_virtual_time |-> local_virtual_time, state |-> state, map |-> map,
     threshold |-> threshold, set |-> set, state_queue |-> state_queue,
     handled |-> handled, last_handled |-> last_handled, live |-> live,
     odd |-> odd]

Call(op, message, path, some, ret) ==
    [op |-> op, message |-> message, path |-> path, some |-> some, ret |-> ret]

\* Handler invocations counted for m.
Count(h, m) == IF m \in DOMAIN h THEN h[m] ELSE 0

\* Five-field toggle: what an annihilating collection over MessageEq holds.
Toggle(s, m) ==
    IF \E x \in s : MessageEq(x, m) THEN {x \in s : ~MessageEq(x, m)}
    ELSE s \cup {m}

\* The five fields MessageEq compares: the message with its sign left out.
Identity(m) == [m EXCEPT !.sign = "Message"]

RECURSIVE ToggleAll(_, _)
ToggleAll(s, sent) ==
    IF sent = <<>> THEN s ELSE ToggleAll(Toggle(s, Head(sent)), Tail(sent))

\* handled follows the call just made: one more invocation for the message
\* the handler ran on; a rollback forgets the invocations at or above its
\* target.
TrackHandled ==
    handled' =
      CASE last'.path = "handled" ->
             [m \in DOMAIN handled \cup {last'.message} |->
                Count(handled, m) + (IF m = last'.message THEN 1 ELSE 0)]
        [] last'.path = "rollback" ->
             [m \in {x \in DOMAIN handled :
                       x.rec_time < last'.message.rec_time} |-> handled[m]]
        [] OTHER -> handled

\* last_handled and straggler_seen follow the call just made.
TrackOrder ==
    /\ last_handled' =
         (IF last'.path = "handled" THEN last'.message ELSE last_handled)
    /\ straggler_seen' = (straggler_seen \/ last'.path = "rollback")

\* live follows the call just made: every message that went through
\* send_outer toggles its five-field identity.
TrackLive ==
    live' =
      CASE last'.op = "send_outer" -> Toggle(live, last'.message)
        [] last'.path = "rollback" -> ToggleAll(live, last'.ret)
        [] OTHER -> live

\* -------------------------------------------------------------------- Init
\* Machine::new(machine_id, 0): clock 0, InputQueue::new(0), empty output
\* queue, default state, and the stamp-0 entry of the state history.
Init ==
    /\ local_virtual_time = 0
    /\ state = MachineState_new
    /\ map = {}
    /\ threshold = 0
    /\ set = {}
    /\ state_queue = {StampedMachineState(MachineState_new, 0)}
    /\ arcs = 0
    /\ panicked = FALSE
    /\ last = Call("new", NoMessage, "new", FALSE, <<>>)
    /\ pre = [none |-> TRUE]
    /\ handled = <<>>
    /\ last_handled = NoMessage
    /\ straggler_seen = FALSE
    /\ live = {}
    /\ delivered = {}
    /\ odd = {}

\* ------------------------------------------------------------------- send
\* The antimessage recieve_outer step 3 builds: a clone with the sign set
\* to Sign::Antimessage.
modified_message(message) == [message EXCEPT !.sign = "Antimessage"]

\* A variant of step 3 that builds the antimessages but does not pass them
\* through send_outer: the output queue keeps what it held.
unsend_without_push(s, sent) == s

\* recieve_outer step 3: send_outer of the modified clone of every element of
\* the Vec, in order; the output queue after the pushes.
RECURSIVE unsend(_, _)
unsend(s, sent) ==
    IF sent = <<>> THEN s
    ELSE unsend(push(s, modified_message(Head(sent))), Tail(sent))

\* The Vec recieve_outer returns: what each send_outer returned.
sent_antimessages(sent) ==
    [i \in 1..Len(sent) |-> modified_message(sent[i])]

\* Machine::send_outer(message): push a clone, return the message.
send_outer(message) ==
    /\ ~panicked
    /\ pre' = Snapshot
    /\ set' = push(set, message)
    /\ last' = Call("send_outer", message, "send", TRUE, <<message>>)
    /\ UNCHANGED <<local_virtual_time, state, map, threshold, state_queue,
                   panicked>>

\* Machine::make_message(payload, sign): stamped with the local clock, due
\* SendDelay later, to machine 0, the payload a new Arc.
make_message(message, sign) ==
    Message(local_virtual_time, local_virtual_time + SendDelay, MachineId, 0,
            sign, message)

\* Machine::send_inner(): make_message on a fresh payload, then send_outer.
send_inner ==
    /\ arcs < MaxInner
    /\ arcs' = arcs + 1
    /\ send_outer(make_message(MaxPayload + arcs + 1, "Message"))

\* ---------------------------------------------------------------- receive
\* A variant of recieve_outer whose step 4 resets the cursor but leaves the
\* clock where it was (local_virtual_time is not assigned).
recieve_outer_clock_not_reset(message) ==
    /\ ~panicked
    /\ pre' = Snapshot
    /\ IF message.rec_time >= local_virtual_time
       THEN /\ map' = insert(map, message)
            /\ last' = Call("recieve_outer", message, "normal", FALSE, <<>>)
            /\ UNCHANGED <<local_virtual_time, state, threshold, set,
                           state_queue, panicked>>
       ELSE LET rollback_target == message.rec_time
            IN IF states_before(state_queue, rollback_target) = {}
               THEN /\ panicked' = TRUE
                    /\ last' = Call("recieve_outer", message, "panic", FALSE, <<>>)
                    /\ UNCHANGED <<local_virtual_time, state, map, threshold,
                                   set, state_queue>>
               ELSE LET sent == range(set, rollback_target, local_virtual_time)
                    IN /\ state' = most_recent_state(state_queue,
                                                     rollback_target).machine_state
                       /\ state_queue' = state_queue \
                              states_to_delete(state_queue, rollback_target,
                                               local_virtual_time)
                       /\ set' = unsend(set, sent)
                       /\ threshold' = rollback_target - 1
                       /\ map' = insert(map, message)
                       /\ last' = Call("recieve_outer", message, "rollback",
                                       TRUE, sent_antimessages(sent))
                       /\ UNCHANGED <<local_virtual_time, panicked>>

\* A variant of recieve_outer whose step 4 sets the cursor to the rollback
\* target itself (update_threshold(rollback_target)).
recieve_outer_cursor_at_target(message) ==
    /\ ~panicked
    /\ pre' = Snapshot
    /\ IF message.rec_time >= local_virtual_time
       THEN /\ map' = insert(map, message)
            /\ last' = Call("recieve_outer", message, "normal", FALSE, <<>>)
            /\ UNCHANGED <<local_virtual_time, state, threshold, set,
                           state_queue, panicked>>
       ELSE LET rollback_target == message.rec_time
            IN IF states_before(state_queue, rollback_target) = {}
               THEN /\ panicked' = TRUE
                    /\ last' = Call("recieve_outer", message, "panic", FALSE, <<>>)
                    /\ UNCHANGED <<local_virtual_time, state, map, threshold,
                                   set, state_queue>>
               ELSE LET sent == range(set, rollback_target, local_virtual_time)
                    IN /\ state' = most_recent_state(state_queue,
                                                     rollback_target).machine_state
                       /\ state_queue' = state_queue \
                              states_to_delete(state_queue, rollback_target,
                                               local_virtual_time)
                       /\ set' = unsend(set, sent)
                       /\ local_virtual_time' = rollback_target
                       /\ threshold' = rollback_target
                       /\ map' = insert(map, message)
                       /\ last' = Call("recieve_outer", message, "rollback",
                                       TRUE, sent_antimessages(sent))
                       /\ UNCHANGED panicked

\* Machine::recieve_outer(message).
\*   rec_time >= local_virtual_time: insert, return None.
\*   otherwise the rollback, steps 1 to 5, returning Some(sent_antimessages).
\*   Step 1 unwraps the first element of the range [stamp 0, stamp target):
\*   when the range is empty (target 0) the call panics there, before any
\*   field is written.
recieve_outer(message) ==
    /\ ~panicked
    /\ pre' = Snapshot
    /\ IF message.rec_time >= local_virtual_time
       THEN /\ map' = insert(map, message)
            /\ last' = Call("recieve_outer", message, "normal", FALSE, <<>>)
            /\ UNCHANGED <<local_virtual_time, state, threshold, set,
                           state_queue, panicked>>
       ELSE LET rollback_target == message.rec_time
            IN IF states_before(state_queue, rollback_target) = {}
               THEN /\ panicked' = TRUE
                    /\ last' = Call("recieve_outer", message, "panic", FALSE, <<>>)
                    /\ UNCHANGED <<local_virtual_time, state, map, threshold,
                                   set, state_queue>>
               ELSE LET sent == range(set, rollback_target, local_virtual_time)
                    IN /\ state' = most_recent_state(state_queue,
                                                     rollback_target).machine_state
                       /\ state_queue' = state_queue \
                              states_to_delete(state_queue, rollback_target,
                                               local_virtual_time)
                       /\ set' = unsend(set, sent)
                       /\ local_virtual_time' = rollback_target
                       /\ threshold' = rollback_target - 1
                       /\ map' = insert(map, message)
                       /\ last' = Call("recieve_outer", message, "rollback",
                                       TRUE, sent_antimessages(sent))
                       /\ UNCHANGED panicked

\* ------------------------------------------------------------------- step
\* A variant of recieve_inner whose get_next_message takes the checkpoint
\* before it looks at the sign of the head.
recieve_inner_checkpoint_before_sign ==
    /\ ~panicked
    /\ pre' = Snapshot
    /\ LET message == peek_smallest_greater(map, threshold)
       IN IF message = NoMessage
          THEN /\ panicked' = TRUE
               /\ last' = Call("recieve_inner", NoMessage, "panic", FALSE, <<>>)
               /\ UNCHANGED <<local_virtual_time, state, map, threshold, set,
                              state_queue>>
          ELSE /\ state_queue' = state_queue_insert(state_queue,
                      StampedMachineState(state, local_virtual_time))
               /\ IF message.sign = "Antimessage"
                  THEN /\ last' = Call("recieve_inner", message, "skip",
                                       FALSE, <<>>)
                       /\ UNCHANGED <<local_virtual_time, state, map,
                                      threshold, set, panicked>>
                  ELSE IF local_virtual_time > message.rec_time
                  THEN /\ panicked' = TRUE
                       /\ last' = Call("recieve_inner", message, "panic",
                                       FALSE, <<>>)
                       /\ UNCHANGED <<local_virtual_time, state, map,
                                      threshold, set>>
                  ELSE /\ local_virtual_time' = message.rec_time
                       /\ threshold' = message.rec_time
                       /\ state' = [state EXCEPT
                                      !.local_var2 = @ + HandlerStep]
                       /\ last' = Call("recieve_inner", message, "handled",
                                       TRUE, <<message>>)
                       /\ UNCHANGED <<map, set, panicked>>

\* Machine::recieve_inner(), with get_next_message inlined.
\*   peek_smallest_greater().unwrap(): panics when nothing is pending.
\*   Antimessage at the head: get_next_message returns None, nothing changes.
\*   Otherwise: checkpoint (state, local_virtual_time), the sanity check
\*   (panic when local_virtual_time > rec_time), clock and threshold set to
\*   rec_time, then the handler: local_var2 += HandlerStep.
recieve_inner ==
    /\ ~panicked
    /\ pre' = Snapshot
    /\ LET message == peek_smallest_greater(map, threshold)
       IN IF message = NoMessage
          THEN /\ panicked' = TRUE
               /\ last' = Call("recieve_inner", NoMessage, "panic", FALSE, <<>>)
               /\ UNCHANGED <<local_virtual_time, state, map, threshold, set,
                              state_queue>>
          ELSE IF message.sign = "Antimessage"
          THEN /\ last' = Call("recieve_inner", message, "skip", FALSE, <<>>)
               /\ UNCHANGED <<local_virtual_time, state, map, threshold, set,
                              state_queue, panicked>>
          ELSE /\ state_queue' = state_queue_insert(state_queue,
                      StampedMachineState(state, local_virtual_time))
               /\ IF local_virtual_time > message.rec_time
                  THEN /\ panicked' = TRUE
                       /\ last' = Call("recieve_inner", message, "panic",
                                       FALSE, <<>>)
                       /\ UNCHANGED <<local_virtual_time, state, map,
                                      threshold, set>>
                  ELSE /\ local_virtual_time' = message.rec_time
                       /\ threshold' = message.rec_time
                       /\ state' = [state EXCEPT
                                      !.local_var2 = @ + HandlerStep]
                       /\ last' = Call("recieve_inner", message, "handled",
                                       TRUE, <<message>>)
                       /\ UNCHANGED <<map, set, panicked>>

\* ------------------------------------------------- the machine, receive side
\* The harness hands any message to recieve_outer and calls recieve_inner,
\* in any order, one call at a time.
Receive == \E message \in RecvMsgs :
    /\ recieve_outer(message)
    /\ UNCHANGED <<arcs, handled, last_handled, straggler_seen, live,
                   delivered, odd>>

Step ==
    /\ recieve_inner
    /\ UNCHANGED <<arcs, handled, last_handled, straggler_seen, live,
                   delivered, odd>>

Next == Receive \/ Step

Spec == Init /\ [][Next]_vars

\* The same over one payload per receive time, counting handler invocations.
ReceiveCounted == \E message \in RecvOne :
    /\ recieve_outer(message)
    /\ TrackHandled
    /\ UNCHANGED <<arcs, last_handled, straggler_seen, live, delivered, odd>>

StepCounted ==
    /\ recieve_inner
    /\ TrackHandled
    /\ UNCHANGED <<arcs, last_handled, straggler_seen, live, delivered, odd>>

NextCounted == ReceiveCounted \/ StepCounted

SpecCounted == Init /\ [][NextCounted]_vars

\* ------------------------------------- every message delivered at most once
\* The transport hands each message of RecvOne to recieve_outer at most once
\* (it does not duplicate), so deliveries come to an end, and the harness
\* calls recieve_inner again and again: it never stops stepping a machine
\* that can step.
ReceiveOnce == \E message \in RecvOne :
    /\ message \notin delivered
    /\ recieve_outer(message)
    /\ TrackHandled
    /\ delivered' = delivered \cup {message}
    /\ UNCHANGED <<arcs, last_handled, straggler_seen, live, odd>>

StepOnce ==
    /\ recieve_inner
    /\ TrackHandled
    /\ UNCHANGED <<arcs, last_handled, straggler_seen, live, delivered, odd>>

NextOnce == ReceiveOnce \/ StepOnce

SpecFair == Init /\ [][NextOnce]_vars /\ WF_vars(StepOnce)

\* ------------------------------------------------ the machine, sending too
\* Positive messages arrive, the machine steps, and it emits messages through
\* send_inner (make_message, then send_outer).
ReceiveStamped == \E message \in RecvPos :
    /\ recieve_outer(message)
    /\ TrackOrder /\ TrackLive
    /\ UNCHANGED <<arcs, handled, delivered, odd>>

StepStamped ==
    /\ recieve_inner
    /\ TrackOrder /\ TrackLive
    /\ UNCHANGED <<arcs, handled, delivered, odd>>

SendInner ==
    /\ send_inner
    /\ TrackOrder /\ TrackLive
    /\ UNCHANGED <<handled, delivered, odd>>

NextStamped == ReceiveStamped \/ StepStamped \/ SendInner

SpecStamped == Init /\ [][NextStamped]_vars

\* ------------------------------------------- arrival in any order (main.rs)
\* simple_rollback / extended_rollback: positive messages with pairwise
\* distinct receive times >= 1 reach one machine in any order, each once,
\* between calls of recieve_inner.
Deliver == \E message \in {m \in RecvMsgs : m.sign = "Message"} :
    /\ message.rec_time >= 1
    /\ \A d \in delivered : d.rec_time # message.rec_time
    /\ recieve_outer(message)
    /\ delivered' = delivered \cup {message}
    /\ UNCHANGED <<arcs, handled, last_handled, straggler_seen, live, odd>>

StepArrival ==
    /\ recieve_inner
    /\ UNCHANGED <<arcs, handled, last_handled, straggler_seen, live,
                   delivered, odd>>

NextArrival == Deliver \/ StepArrival

SpecArrival == Init /\ [][NextArrival]_vars

\* ------------------------------------------ the machine, sent to directly
\* send_message: the harness hands messages of either sign to send_outer,
\* each stamped with the machine's clock as make_message stamps them, while
\* positive messages arrive and the machine steps.
SendOuter == \E message \in SendMsgs :
    /\ message.send_time = local_virtual_time
    /\ send_outer(message)
    /\ UNCHANGED <<arcs, handled, last_handled, straggler_seen, live,
                   delivered, odd>>

ReceiveSend == \E message \in RecvPos :
    /\ recieve_outer(message)
    /\ UNCHANGED <<arcs, handled, last_handled, straggler_seen, live,
                   delivered, odd>>

StepSend ==
    /\ recieve_inner
    /\ UNCHANGED <<arcs, handled, last_handled, straggler_seen, live,
                   delivered, odd>>

NextSend == SendOuter \/ ReceiveSend \/ StepSend

SpecSend == Init /\ [][NextSend]_vars

\* ------------------------------- a message and its antimessage (main.rs)
\* send_message_simple_rollback / send_antimessage_first: a receiver that has
\* been handed positive messages and has stepped is handed a message of
\* RecvOne that is not a duplicate of one it holds and, later, the twin of
\* opposite sign, in either order; recieve_inner is called in between as
\* long as it does not process the positive one of the two.  delivered
\* holds those of the two handed over so far.
Opposite(message) ==
    [message EXCEPT !.sign = IF @ = "Message" THEN "Antimessage" ELSE "Message"]

ReceiveBefore == \E message \in {m \in RecvMsgs : m.sign = "Message"} :
    /\ delivered = {}
    /\ recieve_outer(message)
    /\ UNCHANGED <<arcs, handled, last_handled, straggler_seen, live,
                   delivered, odd>>

DeliverFirst == \E message \in RecvOne :
    /\ delivered = {}
    /\ local_virtual_time <= message.rec_time
    /\ \A x \in map : ~MessageEq(x, message)
    /\ recieve_outer(message)
    /\ delivered' = {message}
    /\ UNCHANGED <<arcs, handled, last_handled, straggler_seen, live, odd>>

DeliverSecond == \E message \in RecvOne :
    /\ delivered = {Opposite(message)}
    /\ local_virtual_time <= message.rec_time
    /\ recieve_outer(message)
    /\ delivered' = delivered \cup {message}
    /\ UNCHANGED <<arcs, handled, last_handled, straggler_seen, live, odd>>

StepPair ==
    /\ Cardinality(delivered) = 1 =>
         peek_smallest_greater(map, threshold) \notin
           {m \in delivered : m.sign = "Message"}
    /\ recieve_inner
    /\ UNCHANGED <<arcs, handled, last_handled, straggler_seen, live,
                   delivered, odd>>

NextPair == ReceiveBefore \/ DeliverFirst \/ DeliverSecond \/ StepPair

SpecPair == Init /\ [][NextPair]_vars

\* ------------------------------------------------- the input queue alone
\* InputQueue used directly, as its unit tests use it: any sequence of
\* insert calls.
QueueInsert == \E message \in RecvMsgs :
    /\ pre' = Snapshot
    /\ map' = insert(map, message)
    /\ odd' = Toggle(odd, Identity(message))
    /\ last' = Call("insert", message, "insert", FALSE, <<>>)
    /\ UNCHANGED <<local_virtual_time, state, threshold, set, state_queue,
                   arcs, panicked, handled, last_handled, straggler_seen,
                   live, delivered>>

NextInsert == QueueInsert

SpecInsert == Init /\ [][NextInsert]_vars

\* ------------------------------------- the input queue and its cursor
\* InputQueue used directly, as test_priority_queue_edge_cases uses it: any
\* sequence of insert, update_threshold and peek_smallest_greater calls.
PeekInsert == \E message \in RecvOne :
    /\ pre' = Snapshot
    /\ map' = insert(map, message)
    /\ last' = Call("insert", message, "insert", FALSE, <<>>)
    /\ UNCHANGED <<local_virtual_time, state, threshold, set, state_queue,
                   arcs, panicked, handled, last_handled, straggler_seen,
                   live, delivered, odd>>

\* InputQueue::update_threshold(new_threshold).
update_threshold == \E new_threshold \in Times :
    /\ pre' = Snapshot
    /\ threshold' = new_threshold
    /\ last' = Call("update_threshold", NoMessage, "set", FALSE, <<>>)
    /\ UNCHANGED <<local_virtual_time, state, map, set, state_queue,
                   arcs, panicked, handled, last_handled, straggler_seen,
                   live, delivered, odd>>

\* A call of peek_smallest_greater (&self): the Option it returns is
\* recorded, nothing is written.
QueuePeek ==
    LET found == peek_smallest_greater(map, threshold)
    IN /\ pre' = Snapshot
       /\ last' = Call("peek_smallest_greater", NoMessage, "peek",
                       found # NoMessage,
                       IF found = NoMessage THEN <<>> ELSE <<found>>)
       /\ UNCHANGED <<local_virtual_time, state, map, threshold, set,
                      state_queue, arcs, panicked, handled, last_handled,
                      straggler_seen, live, delivered, odd>>

NextPeek == PeekInsert \/ update_threshold \/ QueuePeek

SpecPeek == Init /\ [][NextPeek]_vars

\* ---------------------------------- the input queue and its fossil hook
\* InputQueue used directly, as test_priority_queue uses it: any sequence of
\* insert, update_threshold, peek_smallest_greater and remove_smallest
\* calls.
QueueRemoveSmallest ==
    LET smallest == remove_smallest_ret(map)
    IN /\ pre' = Snapshot
       /\ map' = remove_smallest_map(map)
       /\ last' = Call("remove_smallest", NoMessage, "remove",
                       smallest # NoMessage,
                       IF smallest = NoMessage THEN <<>> ELSE <<smallest>>)
       /\ UNCHANGED <<local_virtual_time, state, threshold, set,
                      state_queue, arcs, panicked, handled, last_handled,
                      straggler_seen, live, delivered, odd>>

NextRemove ==
    PeekInsert \/ update_threshold \/ QueuePeek \/ QueueRemoveSmallest

SpecRemove == Init /\ [][NextRemove]_vars

\* ------------------------------------------------- the output queue alone
\* OutputQueue used directly, as its unit tests use it: any sequence of
\* push calls.
QueuePush == \E message \in SendMsgs :
    /\ pre' = Snapshot
    /\ set' = push(set, message)
    /\ last' = Call("push", message, "push", FALSE, <<>>)
    /\ UNCHANGED <<local_virtual_time, state, map, threshold, state_queue,
                   arcs, panicked, handled, last_handled, straggler_seen,
                   live, delivered, odd>>

NextPush == QueuePush

SpecPush == Init /\ [][NextPush]_vars


\* -------------------------------------------- the output queue and its pop
\* OutputQueue used directly, as test_push_pop_send_time uses it: any
\* sequence of push and pop calls.
QueuePop ==
    LET first == pop_ret(set)
    IN /\ pre' = Snapshot
       /\ set' = pop_set(set)
       /\ last' = Call("pop", NoMessage, "pop", first # NoMessage,
                       IF first = NoMessage THEN <<>> ELSE <<first>>)
       /\ UNCHANGED <<local_virtual_time, state, map, threshold,
                      state_queue, arcs, panicked, handled, last_handled,
                      straggler_seen, live, delivered, odd>>

NextPop == QueuePush \/ QueuePop

SpecPop == Init /\ [][NextPop]_vars

\* ------------------------------------------ the output queue and its range
\* OutputQueue used directly, as test_range uses it: any sequence of push
\* and range(start, end) calls, the bounds in either order.
RangePush == \E message \in SendMsgs :
    /\ ~panicked
    /\ pre' = Snapshot
    /\ set' = push(set, message)
    /\ last' = Call("push", message, "push", FALSE, <<>>)
    /\ UNCHANGED <<local_virtual_time, state, map, threshold, state_queue,
                   arcs, panicked, handled, last_handled, straggler_seen,
                   live, delivered, odd>>

\* A call of range (&self): the Vec it returns is recorded; the call panics
\* inside BTreeSet::range when start > end.
QueueRange == \E start \in Times, end \in Times :
    /\ ~panicked
    /\ pre' = Snapshot
    /\ IF range_panics(start, end)
       THEN /\ panicked' = TRUE
            /\ last' = Call("range", [start |-> start, end |-> end], "panic",
                            FALSE, <<>>)
       ELSE /\ last' = Call("range", [start |-> start, end |-> end], "range",
                            TRUE, range(set, start, end))
            /\ UNCHANGED panicked
    /\ UNCHANGED <<local_virtual_time, state, map, threshold, set,
                   state_queue, arcs, handled, last_handled, straggler_seen,
                   live, delivered, odd>>

NextRange == RangePush \/ QueueRange

SpecRange == Init /\ [][NextRange]_vars

\* =================================================================== claims
\* What the last call was, and its argument.
Inserted == last.op = "insert"
Received == last.op = "recieve_outer"
NormalPath == Received /\ last.path = "normal"
Rollback == Received /\ last.path = "rollback"
Stepped == last.op = "recieve_inner"
HandledStep == Stepped /\ last.path = "handled"

\* The messages of q annihilation-equivalent to m (MessageEq, sign ignored).
Twins(q, m) == {x \in q : MessageEq(x, m)}

\* C1: InputQueue.insert(m) removes the message of the queue that agrees
\* with m on the five fields (and stores nothing) when there is one;
\* otherwise it adds m and keeps every message the queue held.  So the queue
\* size equals the number of five-field identities inserted an odd number of
\* times.
C1_InsertAnnihilatesByIdentity ==
    Inserted =>
      /\ IF Twins(pre.map, last.message) # {}
         THEN map = pre.map \ Twins(pre.map, last.message)
         ELSE last.message \in map /\ pre.map \subseteq map
      /\ Cardinality(map) = Cardinality(odd)

\* The entry of the state history sq with the greatest virtual_time_stamp
\* strictly below t.
GreatestBefore(sq, t) ==
    CHOOSE x \in sq :
      /\ x.virtual_time_stamp < t
      /\ \A y \in sq : y.virtual_time_stamp < t
                       => y.virtual_time_stamp <= x.virtual_time_stamp

\* C2: right after recieve_outer(m) with m.rec_time < local_virtual_time
\* returns, the user state is the snapshot of the state-history entry with
\* the greatest stamp strictly below m.rec_time, the history taken as it
\* stood when the call began.
C2_RestoresMostRecentCheckpoint ==
    Rollback =>
      state = GreatestBefore(pre.state_queue,
                             last.message.rec_time).machine_state


\* The messages of q still to be processed: rec_time above the cursor th.
Pending(q, th) == {x \in q : x.rec_time > th}

\* The largest receive time among the messages of q.
MaxRecTime(q) ==
    CHOOSE t \in {x.rec_time : x \in q} : \A x \in q : x.rec_time <= t

\* C3: positive messages with pairwise distinct receive times >= 1, handed
\* to one machine in any order between steps: once all are delivered and no
\* message is pending, the counter is HandlerStep times their number and the
\* clock is the largest receive time.
C3_ArrivalOrderIndependent ==
    (delivered # {} /\ Pending(map, threshold) = {}) =>
      /\ state.local_var2 = HandlerStep * Cardinality(delivered)
      /\ local_virtual_time = MaxRecTime(delivered)

\* C4 (invariant I3): every message of the input queue with rec_time <=
\* cursor has had the handler invoked for it exactly once since the last
\* rollback whose target was at or below its rec_time.
C4_ProcessedHandledOnce ==
    \A m \in map : m.rec_time <= threshold => Count(handled, m) = 1

\* The positive messages the receiver had processed when the call began (in
\* the input queue, at or below the cursor, handled once) that the message
\* just received is the antimessage of.
CancelledProcessed ==
    {m \in pre.map : /\ MessageEq(m, last.message)
                     /\ m.sign = "Message"
                     /\ m.rec_time <= pre.threshold
                     /\ Count(pre.handled, m) = 1}

\* C5: recieve_outer of the antimessage of a processed positive message m
\* returns with m gone from the input queue, the clock at m.rec_time, the
\* cursor at m.rec_time - 1 and the user state a checkpoint taken before m
\* was handled, also when m.rec_time equals the receiver's clock.
C5_CancelProcessedRollsBack ==
    (Received /\ ~panicked /\ last.message.sign = "Antimessage") =>
      \A m \in CancelledProcessed :
        /\ m \notin map
        /\ local_virtual_time = m.rec_time
        /\ threshold = m.rec_time - 1
        /\ \E e \in pre.state_queue :
             /\ e.virtual_time_stamp < m.rec_time
             /\ state = e.machine_state


\* A rollback's target t and the clock T it started from.
Target == last.message.rec_time
PriorClock == pre.local_virtual_time
InInterval(x) == Target <= x.send_time /\ x.send_time <= PriorClock

\* The elements of a sequence.
Elements(sq) == {sq[i] : i \in 1..Len(sq)}

\* The positive messages emitted through send_outer and not yet cancelled
\* when the call began, with send_time in [t, T].
EmittedInInterval == {x \in pre.live : x.sign = "Message" /\ InInterval(x)}

\* C6: the list a rollback returns holds the negative twin of exactly the
\* positive messages emitted with send_time in [t, T] and not yet cancelled,
\* one twin for each, also when several were emitted at one send_time.
C6_AntimessageCoverage ==
    Rollback =>
      /\ Elements(last.ret) = {modified_message(x) : x \in EmittedInInterval}
      /\ Len(last.ret) = Cardinality(EmittedInInterval)

\* C7: after a rollback with target t from clock T the output queue holds no
\* message with send_time in [t, T], and every message with send_time < t
\* that it held before is still there.
C7_SendSideSelfAnnihilation ==
    Rollback =>
      /\ \A x \in set : ~InInterval(x)
      /\ \A x \in pre.set : x.send_time < Target => x \in set

\* C7's case: a rollback that found a message inside [t, T] and one below t.
C7_Witness ==
    /\ Rollback
    /\ \E x \in pre.set : InInterval(x)
    /\ \E x \in pre.set : x.send_time < Target /\ x \in set

\* The messages the receiver had processed when the call began.
ProcessedBefore == {x \in pre.map : x.rec_time <= pre.threshold}

\* C8: after the straggler path with t = m.rec_time the clock is t and the
\* cursor t - 1; unless m annihilated a twin, m is in the input queue and is
\* what peek_smallest_greater returns; every message processed before with
\* rec_time >= t (other than that twin) is pending again.
C8_ClockAndCursorReset ==
    Rollback =>
      /\ local_virtual_time = Target
      /\ threshold = Target - 1
      /\ Twins(pre.map, last.message) = {} =>
           /\ last.message \in map
           /\ peek_smallest_greater(map, threshold) = last.message
      /\ \A x \in ProcessedBefore :
           (x.rec_time >= Target /\ ~MessageEq(x, last.message)) =>
             x \in Pending(map, threshold)

\* The frame of a normal-path receive: everything but the input queue's
\* contents is as the call found it, and the call returned None.
C9_NormalPathFrame ==
    NormalPath =>
      /\ ~last.some
      /\ local_virtual_time = pre.local_virtual_time
      /\ threshold = pre.threshold
      /\ state = pre.state
      /\ state_queue = pre.state_queue
      /\ set = pre.set

\* C9: recieve_outer(m) with m.rec_time >= local_virtual_time returns None,
\* applies the annihilating insert of m (remove m's twin if the queue holds
\* one, add m otherwise) and changes nothing else; a call that returns
\* returns a list exactly when m.rec_time < local_virtual_time.
C9_NormalPathPureEnqueue ==
    /\ (Received /\ ~panicked /\ last.message.rec_time >= PriorClock) =>
         /\ NormalPath
         /\ map = Toggle(pre.map, last.message)
    /\ C9_NormalPathFrame
    /\ (Received /\ ~panicked) =>
         (last.some <=> last.message.rec_time < PriorClock)


\* The messages peek_next may yield on the queue as the call found it: the
\* pending ones of least rec_time.
HeadsBefore ==
    {x \in Pending(pre.map, pre.threshold) :
       \A y \in Pending(pre.map, pre.threshold) : x.rec_time <= y.rec_time}

\* C10: when peek_next yields a positive message m, recieve_inner sets the
\* clock and the cursor to m.rec_time and runs the handler once (counter +
\* HandlerStep), leaving the contents of both queues alone; and as long as
\* no straggler has arrived the clock never decreases, messages are handled
\* in strictly increasing rec_time order, and the clock is the rec_time of
\* the last message handled.
C10_StepAdvancesClockMonotonically ==
    /\ (Stepped /\ \E m \in HeadsBefore : m.sign = "Message") =>
         /\ HandledStep
         /\ local_virtual_time = last.message.rec_time
         /\ threshold = last.message.rec_time
         /\ state.local_var2 = pre.state.local_var2 + HandlerStep
         /\ map = pre.map
         /\ set = pre.set
    /\ HandledStep =>
         last.message \in HeadsBefore /\ last.message.sign = "Message"
    /\ ~straggler_seen =>
         /\ last.op # "new" => local_virtual_time >= pre.local_virtual_time
         /\ HandledStep =>
              \/ pre.last_handled = NoMessage
              \/ pre.last_handled.rec_time < last.message.rec_time
         /\ last_handled # NoMessage =>
              local_virtual_time = last_handled.rec_time

\* C10's case: in a run without stragglers, a second message is handled
\* while the output queue and the rest of the input queue hold messages.
C10_Witness ==
    /\ HandledStep
    /\ ~straggler_seen
    /\ pre.last_handled # NoMessage
    /\ set # {}
    /\ Pending(map, threshold) # {}
    /\ local_virtual_time > pre.local_virtual_time

\* What a call that changes nothing leaves: every field of the machine as
\* the call found it.
MachineUnchanged ==
    /\ state = pre.state
    /\ local_virtual_time = pre.local_virtual_time
    /\ threshold = pre.threshold
    /\ map = pre.map
    /\ state_queue = pre.state_queue
    /\ set = pre.set

\* C11: when the message peek_next yields is negative, recieve_inner
\* changes nothing (user state, clock, cursor, input queue, state history,
\* output queue) and does not fail; the negative message is still what
\* peek_next yields afterwards, so the next step is skipped as well.
C11_NegativeHeadSkipped ==
    /\ (Stepped /\ \E m \in HeadsBefore : m.sign = "Antimessage") =>
         /\ last.path = "skip"
         /\ ~panicked
         /\ MachineUnchanged
    /\ (Stepped /\ last.path = "skip") =>
         /\ last.message.sign = "Antimessage"
         /\ last.message \in HeadsBefore
         /\ peek_smallest_greater(map, threshold) = last.message

\* C11's case: a negative head skipped on a machine that has processed a
\* message and still holds a positive message behind the negative one.
C11_Witness ==
    /\ Stepped /\ last.path = "skip"
    /\ local_virtual_time > 0
    /\ Cardinality(state_queue) > 1
    /\ \E x \in Pending(map, threshold) :
         x.sign = "Message" /\ x.rec_time > last.message.rec_time

\* C12: recieve_inner on an input queue with no message above the cursor
\* returns normally (the machine does not fail) and changes nothing.
C12_IdleStepIsNoOp ==
    (Stepped /\ Pending(pre.map, pre.threshold) = {}) =>
      /\ ~panicked
      /\ MachineUnchanged


\* C13: a straggler m handed to recieve_outer twice in a row leaves the
\* machine (user state, clock, cursor, input queue, output queue, state
\* history) as the first call left it.
C13_DuplicateStragglerIdempotent ==
    [][(/\ Rollback
        /\ last'.op = "recieve_outer"
        /\ last'.message = last.message)
       => /\ state' = state
          /\ local_virtual_time' = local_virtual_time
          /\ threshold' = threshold
          /\ map' = map
          /\ set' = set
          /\ state_queue' = state_queue]_vars


\* C14 (invariant I1): the cursor is the clock or one tick below it; it is
\* one tick below exactly from the return of a rollback until the next
\* message is handled, and equal to the clock otherwise, whatever sequence
\* of recieve_outer, recieve_inner and send_inner is run.
C14_CursorTracksClock ==
    /\ [](/\ threshold \in {local_virtual_time, local_virtual_time - 1}
          /\ last.op = "new" => threshold = local_virtual_time)
    /\ [][(threshold' = local_virtual_time' - 1)
            <=> \/ last'.path = "rollback"
                \/ /\ threshold = local_virtual_time - 1
                   /\ last'.path # "handled"]_vars

\* C14's case: a message handled right after a rollback, on a machine that
\* has sent: the cursor was one tick below the clock and meets it again.
C14_Witness ==
    /\ HandledStep
    /\ pre.threshold = pre.local_virtual_time - 1
    /\ threshold = local_virtual_time
    /\ pre.set # {}


\* A call of recieve_outer whose message was a straggler: rec_time below the
\* clock the call found.
StragglerReceived == Received /\ last.message.rec_time < PriorClock

\* C15 (invariant I4): whenever recieve_outer is handed a straggler m
\* (m.rec_time below the clock, m.rec_time = 0 included) the state history
\* holds an entry with a stamp strictly below m.rec_time, and the restore
\* step of the rollback does not fail.
C15_RollbackNeverLacksCheckpoint ==
    StragglerReceived =>
      /\ \E e \in pre.state_queue :
           e.virtual_time_stamp < last.message.rec_time
      /\ ~panicked

\* C16: a straggler with rec_time 0 handed to a machine whose clock is
\* above 0: the rollback completes, the clock is 0, the cursor is strictly
\* below every rec_time, and the straggler (unless it annihilated a twin) is
\* what peek_next yields next.
C16_RollbackToTimeZero ==
    (StragglerReceived /\ last.message.rec_time = 0) =>
      /\ Rollback
      /\ local_virtual_time = 0
      /\ \A t \in Times : threshold < t
      /\ Twins(pre.map, last.message) = {} =>
           peek_smallest_greater(map, threshold) = last.message


\* The second of a message and its antimessage has just been handed over.
SecondDelivered ==
    /\ Received
    /\ Cardinality(delivered) = 2
    /\ last.message \in delivered

\* C17: a positive message m and its antimessage handed to a receiver whose
\* clock is at or below m.rec_time, in either order, with steps in between
\* that do not process m: after the second delivery the input queue holds
\* neither of the two, and that delivery took the normal path and left the
\* user state and the clock alone.
C17_AnnihilationAnyOrder ==
    SecondDelivered =>
      /\ Twins(map, last.message) = {}
      /\ NormalPath
      /\ state = pre.state
      /\ local_virtual_time = pre.local_virtual_time


\* C18: OutputQueue.push(m) removes the message of the queue that agrees
\* with m on the five fields (and stores nothing) when there is one;
\* otherwise it adds m and keeps every message the queue held, so two
\* distinct messages of one send_time are both retained.
C18_PushAnnihilatesByIdentity ==
    last.op = "push" =>
      IF Twins(pre.set, last.message) # {}
      THEN set = pre.set \ Twins(pre.set, last.message)
      ELSE last.message \in set /\ pre.set \subseteq set


\* The last call was peek_smallest_greater.
Peeked == last.op = "peek_smallest_greater"

Sent == last.op = "send_outer"

\* The frame and the result of send_outer: the message is returned as it
\* was passed, sign included, and clock, cursor, input queue, user state and
\* state history are as the call found them.
C20_SendFrame ==
    Sent =>
      /\ last.some /\ last.ret = <<last.message>>
      /\ local_virtual_time = pre.local_virtual_time
      /\ threshold = pre.threshold
      /\ map = pre.map
      /\ state = pre.state
      /\ state_queue = pre.state_queue

\* C20: send_outer(m) applies the annihilating push of m to the output
\* queue (remove m's twin if the queue holds one, add m otherwise, whatever
\* m's sign), returns m unchanged and leaves everything else alone.
C20_SendAppliesAnnihilatingPush ==
    /\ Sent => set = Toggle(pre.set, last.message)
    /\ C20_SendFrame


\* C21 (invariant I2): with every emitted message stamped with the clock
\* of the moment it is sent, every message of the output queue has
\* send_time <= local_virtual_time in every reachable state, right after a
\* rollback included.
C21_OutputNotAfterClock ==
    \A x \in set : x.send_time <= local_virtual_time

\* C21's case: a rollback on a machine whose output queue held a message
\* stamped above the rollback target, and still holds one afterwards.
C21_Witness ==
    /\ Rollback
    /\ \E x \in pre.set : x.send_time > local_virtual_time
    /\ set # {}


\* A negative message with a smaller rec_time is pending ahead of m.
BlockedByNegative(m) ==
    \E n \in Pending(map, threshold) :
      n.sign = "Antimessage" /\ n.rec_time < m.rec_time

\* C22: with recieve_inner called again and again, every positive message
\* the input queue has accepted (rec_time equal to the clock at the time of
\* the call included) leads to the handler being invoked for it, unless it
\* is annihilated, a negative message of smaller rec_time is pending ahead
\* of it, or the machine has failed.
C22_AcceptedEventuallyProcessed ==
    \A m \in RecvPos :
      (m \in map) ~> \/ Count(handled, m) >= 1
                     \/ m \notin map
                     \/ BlockedByNegative(m)
                     \/ panicked


\* The last call was OutputQueue::range, and the messages of the queue
\* inside its bounds.
Ranged == last.op = "range"
InRange == {x \in pre.set : /\ last.message.start <= x.send_time
                            /\ x.send_time <= last.message.end}

\* What range returns when it returns: exactly the messages inside the
\* bounds, each once, in ascending send_time order, the queue unchanged.
C23_RangeResult ==
    (Ranged /\ ~panicked) =>
      /\ Elements(last.ret) = InRange
      /\ Len(last.ret) = Cardinality(InRange)
      /\ \A i \in 1..Len(last.ret) : \A j \in 1..Len(last.ret) :
           i < j => last.ret[i].send_time <= last.ret[j].send_time
      /\ set = pre.set

Removed == last.op = "remove_smallest"

\* C24: remove_smallest removes and returns the message of least rec_time
\* of the whole queue, whatever the cursor, and returns nothing (changing
\* nothing) on an empty queue; the cursor and every other message stay, so
\* peek_next sees the same queue less the removed message; and calls that
\* follow one another return messages in ascending rec_time order.
C24_RemoveSmallest ==
    /\ [](Removed =>
           /\ threshold = pre.threshold
           /\ IF pre.map = {}
              THEN ~last.some /\ last.ret = <<>> /\ map = {}
              ELSE /\ last.some /\ Len(last.ret) = 1
                   /\ last.ret[1] \in pre.map
                   /\ \A y \in pre.map : last.ret[1].rec_time <= y.rec_time
                   /\ map = pre.map \ {last.ret[1]}
                   /\ Pending(map, threshold) =
                        Pending(pre.map, pre.threshold) \ {last.ret[1]})
    /\ [][(Removed /\ last.some /\ Removed' /\ last'.some)
           => last.ret[1].rec_time < last'.ret[1].rec_time]_vars

\* C24's case: a message at or below the cursor is removed from a queue of
\* three or more messages, one of them still pending.
C24_Witness ==
    /\ Removed /\ last.some
    /\ last.ret[1].rec_time <= threshold
    /\ Cardinality(pre.map) >= 3
    /\ Pending(map, threshold) # {}


\* The last call was OutputQueue::pop.
Popped == last.op = "pop"

\* C25: pop removes and returns the message of least send_time and returns
\* nothing (changing nothing) on an empty queue; every other message stays;
\* and pops that follow one another return messages in ascending send_time
\* order, whatever the order of the pushes.
C25_PopSmallest ==
    /\ [](Popped =>
           IF pre.set = {}
           THEN ~last.some /\ last.ret = <<>> /\ set = {}
           ELSE /\ last.some /\ Len(last.ret) = 1
                /\ last.ret[1] \in pre.set
                /\ \A y \in pre.set : last.ret[1].send_time <= y.send_time
                /\ set = pre.set \ {last.ret[1]})
    /\ [][(Popped /\ last.some /\ Popped' /\ last'.some)
           => last.ret[1].send_time < last'.ret[1].send_time]_vars

\* C25's case: a pop from a queue of three or more messages that leaves
\* some behind.
C25_Witness ==
    /\ Popped /\ last.some
    /\ Cardinality(pre.set) >= 3
    /\ \E x \in set : x.send_time > last.ret[1].send_time


\* C26: whenever recieve_inner handles a positive message from clock T with
\* user state s, the state history afterwards holds an entry stamped T
\* whose snapshot is s, also when an entry stamped T existed before.
C26_CheckpointBeforeAdvancing ==
    HandledStep =>
      \E e \in state_queue :
        /\ e.virtual_time_stamp = pre.local_virtual_time
        /\ e.machine_state = pre.state


\* C27: after a rollback with target t the state history holds no entry
\* stamped t or later, and every entry stamped before t that it held when
\* the call began is still there with the same snapshot.
C27_CheckpointPurge ==
    Rollback =>
      /\ \A e \in state_queue : e.virtual_time_stamp < Target
      /\ \A e \in pre.state_queue :
           e.virtual_time_stamp < Target => e \in state_queue

\* C27's case: a rollback that found an entry stamped with its target and
\* kept an entry other than the initial one.
C27_Witness ==
    /\ Rollback
    /\ \E e \in pre.state_queue : e.virtual_time_stamp = Target
    /\ \E e \in state_queue : e.virtual_time_stamp > 0


\* The sanity check of get_next_message fired: recieve_inner panicked on a
\* message it had peeked.
SanityPanic == Stepped /\ last.path = "panic" /\ last.message # NoMessage

\* C28: in every state reachable through recieve_outer, recieve_inner and
\* send_inner every message with rec_time above the cursor has rec_time >=
\* local_virtual_time, and the panic 'Messages in input queue should always
\* be valid' is never raised.
C28_SanityCheckUnreachable ==
    /\ \A m \in Pending(map, threshold) : m.rec_time >= local_virtual_time
    /\ ~SanityPanic

\* C28's case: right after a rollback the check passes on a message whose
\* rec_time equals the clock, on a machine that has sent.
C28_Witness ==
    /\ HandledStep
    /\ pre.local_virtual_time = last.message.rec_time
    /\ pre.threshold < pre.local_virtual_time
    /\ set # {}


\* C29: in every reachable state the state history holds an entry stamped
\* 0 whose snapshot is the initial user state, and no two entries share a
\* stamp.
C29_InitialCheckpointKept ==
    /\ \E e \in state_queue :
         /\ e.virtual_time_stamp = 0
         /\ e.machine_state = MachineState_new
    /\ \A a \in state_queue : \A b \in state_queue :
         a.virtual_time_stamp = b.virtual_time_stamp => a = b

\* C29's case: a rollback on a machine that has sent and whose history held
\* three entries, the user state restored from the initial one.
C29_Witness ==
    /\ Rollback
    /\ Cardinality(pre.state_queue) >= 3
    /\ pre.state # MachineState_new
    /\ state = MachineState_new
    /\ pre.set # {}


====
